---- MODULE Spec2Model ----
(***************************************************************************)
(* Model of packages/core/src/create-form-action.ts (felte): the form      *)
(* binding (form / destroy), the DOM event handlers, the mutation          *)
(* observer callback and the submission handler returned by                *)
(* createSubmitHandler.                                                    *)
(*                                                                         *)
(* Trees (data, touched, errors, warnings) are nodes: either an object     *)
(* <<"obj", f>> with f a function from keys to nodes, or a leaf, a tagged  *)
(* tuple <<"str", s>>, <<"bool", b>>, <<"arr", seq>>, <<"null">> or        *)
(* <<"undef">>.  A path is a sequence of keys.                             *)
(***************************************************************************)
EXTENDS Integers, Sequences, FiniteSets, TLC

(***************************************************************************)
(* Bounds of the model.                                                    *)
(***************************************************************************)
\* number of handler invocations followed in one behaviour
MaxSubs == 2
\* number of handler invocations in a behaviour that also has events and
\* changes of the children of the form
MaxSubsEdited == 1
\* number of input, change and focusout events in one behaviour
MaxEvents == 1
\* number of changes of the children of the form in one behaviour
MaxMutations == 2
\* number of changes of the children of the form in a behaviour that also
\* has handler invocations or controls with the ignore marker
MaxMutationsEdited == 1
\* number of extender instances created in one behaviour
MaxInst == 3
\* number of times form(node) is called in one behaviour
MaxBind == 2
\* number of times form(node) is called in a behaviour that also has
\* events, changes of the children of the form and a handler invocation
MaxBindEdited == 1

(***************************************************************************)
(* Tree values.                                                            *)
(***************************************************************************)
Obj(f) == <<"obj", f>>
EmptyObj == Obj(<<>>)
Str(s) == <<"str", s>>
Bool(b) == <<"bool", b>>
Null == <<"null">>
Undef == <<"undef">>

IsObj(n) == n[1] = "obj"
Kids(n) == n[2]
Keys(n) == DOMAIN n[2]

\* JavaScript truthiness of a leaf (!!value)
Truthy(v) ==
  CASE v[1] = "str" -> v[2] /= ""
    [] v[1] = "bool" -> v[2]
    [] v[1] = "arr" -> TRUE
    [] OTHER -> FALSE

\* _get(obj, path): the node at path, undefined when a segment is missing
RECURSIVE _get(_, _)
_get(obj, path) ==
  IF path = <<>> THEN obj
  ELSE IF IsObj(obj) /\ Head(path) \in Keys(obj)
       THEN _get(Kids(obj)[Head(path)], Tail(path))
       ELSE Undef

\* obj with key k bound to node n
WithKey(obj, k, n) ==
  Obj([x \in Keys(obj) \cup {k} |-> IF x = k THEN n ELSE Kids(obj)[x]])

\* obj without key k
WithoutKey(obj, k) ==
  Obj([x \in Keys(obj) \ {k} |-> Kids(obj)[x]])

\* _set(obj, path, value): intermediate segments that are not objects are
\* replaced by fresh objects
RECURSIVE _set(_, _, _)
_set(obj, path, value) ==
  LET base == IF IsObj(obj) THEN obj ELSE EmptyObj
      k == Head(path)
  IN IF Len(path) = 1 THEN WithKey(base, k, value)
     ELSE WithKey(base, k,
            _set(IF k \in Keys(base) THEN Kids(base)[k] ELSE EmptyObj,
                 Tail(path), value))

\* _unset(obj, path): delete the last segment from its parent, when the
\* parent exists; the (possibly empty) parent object stays
RECURSIVE _unset(_, _)
_unset(obj, path) ==
  IF ~IsObj(obj) THEN obj
  ELSE LET k == Head(path)
       IN IF k \notin Keys(obj) THEN obj
          ELSE IF Len(path) = 1 THEN WithoutKey(obj, k)
          ELSE WithKey(obj, k, _unset(Kids(obj)[k], Tail(path)))

\* _merge(a, b): deep merge, the right operand wins on conflicts
RECURSIVE _merge(_, _)
_merge(a, b) ==
  IF IsObj(a) /\ IsObj(b)
  THEN Obj([k \in Keys(a) \cup Keys(b) |->
         IF k \notin Keys(b) THEN Kids(a)[k]
         ELSE IF k \notin Keys(a) THEN Kids(b)[k]
         ELSE _merge(Kids(a)[k], Kids(b)[k])])
  ELSE IF b = Undef THEN a ELSE b

\* _defaultsDeep(a, b): deep merge, the left operand wins on conflicts and
\* the right one only fills the gaps
RECURSIVE _defaultsDeep(_, _)
_defaultsDeep(a, b) ==
  IF IsObj(a) /\ IsObj(b)
  THEN Obj([k \in Keys(a) \cup Keys(b) |->
         IF k \notin Keys(b) THEN Kids(a)[k]
         ELSE IF k \notin Keys(a) THEN Kids(b)[k]
         ELSE _defaultsDeep(Kids(a)[k], Kids(b)[k])])
  ELSE IF a = Undef THEN b ELSE a

\* deepSet(obj, value): the same shape with every leaf replaced by value
RECURSIVE deepSet(_, _)
deepSet(obj, value) ==
  IF IsObj(obj)
  THEN Obj([k \in Keys(obj) |-> deepSet(Kids(obj)[k], value)])
  ELSE value

\* deepSome(obj, (v) => !!v): some leaf is truthy
RECURSIVE deepSome(_)
deepSome(obj) ==
  IF IsObj(obj)
  THEN \E k \in Keys(obj) : deepSome(Kids(obj)[k])
  ELSE Truthy(obj)

\* the paths of the leaves of a tree
RECURSIVE LeafPaths(_)
LeafPaths(obj) ==
  IF IsObj(obj)
  THEN UNION {{<<k>> \o p : p \in LeafPaths(Kids(obj)[k])} : k \in Keys(obj)}
  ELSE {<<>>}

\* a path is present in a tree when every segment of it is a key
RECURSIVE HasPath(_, _)
HasPath(obj, path) ==
  IF path = <<>> THEN TRUE
  ELSE IsObj(obj) /\ Head(path) \in Keys(obj)
       /\ HasPath(Kids(obj)[Head(path)], Tail(path))

(***************************************************************************)
(* The controls the form can hold, in document order.  Each has the        *)
(* attributes the code reads: name, data-felte-fieldset, type,             *)
(* data-felte-keep-on-remove ("absent" when the attribute is missing),     *)
(* data-felte-ignore, the value attribute and the declared default.        *)
(***************************************************************************)
ControlTable ==
  << [name |-> "name", fieldset |-> "", type |-> "text", keep |-> "absent",
      ignore |-> FALSE, value |-> "", defaultChecked |-> FALSE],
     [name |-> "email", fieldset |-> "user", type |-> "text", keep |-> "",
      ignore |-> FALSE, value |-> "", defaultChecked |-> FALSE],
     [name |-> "subscribe", fieldset |-> "", type |-> "checkbox",
      keep |-> "false", ignore |-> FALSE, value |-> "on",
      defaultChecked |-> FALSE],
     \* 4-7: controls with the ignore marker or without a name
     [name |-> "nick", fieldset |-> "", type |-> "text", keep |-> "absent",
      ignore |-> TRUE, value |-> "", defaultChecked |-> FALSE],
     [name |-> "", fieldset |-> "", type |-> "text", keep |-> "absent",
      ignore |-> FALSE, value |-> "", defaultChecked |-> FALSE],
     [name |-> "agree", fieldset |-> "", type |-> "checkbox", keep |-> "absent",
      ignore |-> TRUE, value |-> "on", defaultChecked |-> FALSE],
     [name |-> "", fieldset |-> "", type |-> "select", keep |-> "absent",
      ignore |-> FALSE, value |-> "", defaultChecked |-> FALSE],
     \* 8-10: a radio, a file input and a select
     [name |-> "plan", fieldset |-> "", type |-> "radio", keep |-> "absent",
      ignore |-> FALSE, value |-> "pro", defaultChecked |-> FALSE],
     [name |-> "avatar", fieldset |-> "", type |-> "file", keep |-> "absent",
      ignore |-> FALSE, value |-> "", defaultChecked |-> FALSE],
     [name |-> "country", fieldset |-> "", type |-> "select", keep |-> "absent",
      ignore |-> FALSE, value |-> "fr", defaultChecked |-> FALSE],
     \* 11-12: two checkboxes of one group
     [name |-> "tags", fieldset |-> "", type |-> "checkbox", keep |-> "absent",
      ignore |-> FALSE, value |-> "a", defaultChecked |-> TRUE],
     [name |-> "tags", fieldset |-> "", type |-> "checkbox", keep |-> "absent",
      ignore |-> FALSE, value |-> "b", defaultChecked |-> FALSE] >>

Controls == DOMAIN ControlTable
Ctl(c) == ControlTable[c]

\* the documents followed: the controls that are in the form or can be
\* moved into it
BasicPage == {1, 2, 3}
KindsPage == {1, 3, 4, 5, 6, 7, 8, 9, 10}
GroupPage == {11, 12}
MarkedPage == {1, 4, 6}

\* values a user can type into a text control
TextValues == {"Ada"}

isSelectElement(c) == Ctl(c).type = "select"
isInputElement(c) == Ctl(c).type \in {"text", "checkbox", "radio", "file"}
shouldIgnore(c) == Ctl(c).ignore

\* getPath(el): the fieldset, when there is one, then the name
getPath(c) ==
  IF Ctl(c).fieldset = "" THEN <<Ctl(c).name>>
  ELSE <<Ctl(c).fieldset, Ctl(c).name>>

getPathFromDataset(c) == getPath(c)

\* the controls of a set, in document order
RECURSIVE InOrder(_)
InOrder(S) ==
  IF S = {} THEN <<>>
  ELSE LET m == CHOOSE x \in S : \A y \in S : x <= y
       IN <<m>> \o InOrder(S \ {m})

\* getFormControls(node): the controls among the controls a node is or
\* contains, el, that have no ignore marker
getFormControls(el) == InOrder({c \in el : ~shouldIgnore(c)})

Reverse(s) == [i \in 1..Len(s) |-> s[Len(s) + 1 - i]]

\* the declared default of one control, given the controls of the form
DefaultValue(c, node) ==
  LET group == {d \in node : Ctl(d).type = Ctl(c).type /\ getPath(d) = getPath(c)}
      members == InOrder(group)
      on == SelectSeq(members, LAMBDA d : Ctl(d).defaultChecked)
  IN CASE Ctl(c).type = "checkbox" ->
            IF Cardinality(group) = 1 THEN Bool(Ctl(c).defaultChecked)
            ELSE <<"arr", [i \in 1..Len(on) |-> Ctl(on[i]).value]>>
       [] Ctl(c).type = "radio" ->
            IF on = <<>> THEN Undef ELSE Str(Ctl(on[1]).value)
       [] Ctl(c).type = "file" -> Undef
       [] OTHER -> Str(Ctl(c).value)

\* getFormDefaultValues(node).defaultData: the tree of the declared
\* defaults of the named, not ignored controls of the form
RECURSIVE DefaultsOf(_, _, _)
DefaultsOf(acc, cs, node) ==
  IF cs = <<>> THEN acc
  ELSE DefaultsOf(
         IF Ctl(Head(cs)).name = "" THEN acc
         ELSE _set(acc, getPath(Head(cs)), DefaultValue(Head(cs), node)),
         Tail(cs), node)

getFormDefaultValues(node) == DefaultsOf(EmptyObj, getFormControls(node), node)


(***************************************************************************)
(* Configuration.  A configuration (or the overrides given to              *)
(* createSubmitHandler) says which of onSubmit, validate, warn and onError *)
(* it defines; config.touchTriggerEvents says which events mark a path     *)
(* touched.                                                                *)
(***************************************************************************)
NoFunctions ==
  [onSubmit |-> FALSE, validate |-> FALSE, warn |-> FALSE, onError |-> FALSE]

Configs ==
  { [fns |-> NoFunctions,
     touchTriggerEvents |-> [input |-> FALSE, change |-> TRUE, blur |-> TRUE]],
    [fns |-> [onSubmit |-> TRUE, validate |-> TRUE, warn |-> TRUE,
              onError |-> TRUE],
     touchTriggerEvents |-> [input |-> TRUE, change |-> FALSE, blur |-> FALSE]] }

AltConfigs ==
  { NoFunctions,
    [onSubmit |-> FALSE, validate |-> TRUE, warn |-> TRUE, onError |-> FALSE],
    [onSubmit |-> TRUE, validate |-> TRUE, warn |-> TRUE, onError |-> FALSE] }

\* config.initialValues, as supplied by the caller
InitialValueSets == {EmptyObj, Obj([name |-> Str("Bob")])}

\* the controls of the form when the program starts
InitialForms == {{1, 3}, BasicPage}

\* number of extender factories in the extender list
NumExtenders == 1
\* number of times destroy() of one binding is called
MaxDestroyCalls == 2

(***************************************************************************)
(* State.                                                                  *)
(***************************************************************************)
VARIABLES
  data, touched, errors, warnings, isSubmitting, isDirty, \* the stores
  config,            \* the configuration createFormAction was given
  initialValues,     \* what _getInitialValues() returns
  formNode,          \* whether _setFormNode(node) has been called
  page,              \* the controls of the document
  dom,               \* the controls that are in the form node
  checked,           \* the checkboxes and radios of the form that are checked
  felteValidationMessage, \* per control: its dataset.felteValidationMessage
  ariaInvalid,       \* the controls that have the attribute aria-invalid
  applied,           \* per control: the message the subscriber last applied
  bindings,          \* per call of form(node): the calls of its destroy()
  submitListener,    \* handleSubmit is registered for the submit event
  currentExtenders,  \* what _getCurrentExtenders() returns: instance ids
  nInst,             \* the number of extender instances created
  destroyCount,      \* per instance: the calls of its destroy hook
  subs,              \* the invocations of submit handlers, with their locals
  nEvents,           \* the number of input, change and focusout events
  nMutations,        \* the number of changes of the children of the form
  pending,           \* per binding: the records its observer has yet to deliver
  last               \* the step just taken, and what it did to its callers

stores == <<data, touched, errors, warnings, isSubmitting, isDirty>>
extenderVars == <<currentExtenders, nInst, destroyCount>>
budgets == <<nEvents, nMutations>>
nodeVars == <<page, dom, checked>>
domVars == <<page, dom, checked, felteValidationMessage, ariaInvalid, applied>>
bindVars == <<initialValues, formNode, bindings, submitListener, pending>>
vars == <<data, touched, errors, warnings, isSubmitting, isDirty, config,
          initialValues, formNode, page, dom, checked, felteValidationMessage,
          ariaInvalid, applied, bindings, submitListener,
          currentExtenders, nInst, destroyCount, subs, nEvents, nMutations,
          pending, last>>

\* what last holds after a step that is not a step of a submit handler
NoStep == [kind |-> "none"]

\* what last holds after an event: the event, its target, the value typed
\* or chosen
EventStep(event, c, v) ==
  [kind |-> event, target |-> c,
   value |-> IF (event = "input" /\ Ctl(c).type = "text")
                  \/ (event = "change" /\ Ctl(c).type \in {"select", "file"})
             THEN v ELSE ""]

\* what last holds after a change of the children of the form
ChildrenStep == [kind |-> "children"]

\* what last holds after the callbacks of the observers: the records
\* delivered and what the subscribers of the stores saw during the callbacks
MutationStep(mutationList, seen, written, reflected) ==
  [kind |-> "mutation", records |-> mutationList, seen |-> seen,
   written |-> written, reflected |-> reflected]

\* what last holds after form(node): the controls whose attributes the
\* subscriber of errors wrote when it was subscribed
BindStep(written) == [kind |-> "form", written |-> written, reflected |-> TRUE]

\* the bindings whose observer and listeners are attached
LiveBindings == {b \in DOMAIN bindings : bindings[b] = 0}

\* some observer has records to deliver: its callback is a microtask that
\* has been queued and has not run
Pending == \E b \in LiveBindings : pending[b] /= <<>>

\* the state before form(node) is called, for a document and the forms
\* it can start with
InitWith(document, forms) ==
  /\ page = document
  /\ dom \in forms
  /\ config \in Configs
  /\ initialValues \in InitialValueSets
  /\ data = initialValues
  /\ touched = deepSet(initialValues, Bool(FALSE))
  /\ errors = EmptyObj
  /\ warnings = EmptyObj
  /\ isSubmitting = FALSE
  /\ isDirty = FALSE
  /\ formNode = FALSE
  /\ checked = {c \in dom : Ctl(c).defaultChecked}
  /\ felteValidationMessage = [c \in document |-> Undef]
  /\ ariaInvalid = {}
  /\ applied = [c \in document |-> Undef]
  /\ bindings = <<>>
  /\ submitListener = FALSE
  /\ currentExtenders = <<>>
  /\ nInst = 0
  /\ destroyCount = [i \in 1..MaxInst |-> 0]
  /\ subs = <<>>
  /\ nEvents = 0
  /\ nMutations = 0
  /\ pending = <<>>
  /\ last = NoStep

Init == InitWith(BasicPage, InitialForms)

(***************************************************************************)
(* Extender instances.                                                     *)
(***************************************************************************)
\* extender.map(callExtender(stage)): one new instance per factory
NewExtenders(n) == [i \in 1..NumExtenders |-> n + i]

\* _getCurrentExtenders().forEach((extender) => extender.destroy?.())
DestroyAll(dc, cur) ==
  [i \in DOMAIN dc |-> dc[i] + Cardinality({j \in DOMAIN cur : cur[j] = i})]

(***************************************************************************)
(* The subscriber of errors: lines 384-402.  It works on a record that     *)
(* has the errors, the controls of the node and their attributes.          *)
(***************************************************************************)
\* Array.prototype.join('\n')
RECURSIVE Join(_)
Join(s) ==
  IF s = <<>> THEN ""
  ELSE IF Len(s) = 1 THEN s[1]
  ELSE s[1] \o "\n" \o Join(Tail(s))

\* lines 388-392
Message(fieldErrors) ==
  CASE fieldErrors[1] = "arr" -> Str(Join(fieldErrors[2]))
    [] fieldErrors[1] = "str" -> fieldErrors
    [] OTHER -> Undef

\* line 386: the controls of the node that have a name
Reflectable(node) == {c \in node : Ctl(c).name /= ""}

\* line 393
SameMessage(message, attribute) == message = attribute

\* lines 385-401: one run of the subscriber
ReflectErrors(st) ==
  LET msg(c) == Message(_get(st.errors, getPath(c)))
      W == {c \in Reflectable(st.node) :
              ~SameMessage(msg(c), st.felteValidationMessage[c])}
  IN [st EXCEPT
        !.felteValidationMessage =
           [c \in DOMAIN @ |->
              IF c \in W THEN (IF Truthy(msg(c)) THEN msg(c) ELSE Undef)
              ELSE @[c]],
        !.ariaInvalid = (@ \ W) \cup {c \in W : Truthy(msg(c))},
        !.applied = [c \in DOMAIN @ |-> IF c \in W THEN msg(c) ELSE @[c]],
        !.written = @ \cup W,
        !.reflected = TRUE]

\* errors is set to e, or subscribed to when it holds e: the subscribers of
\* the live bindings run (subscribed), on the controls of node
NotifyErrors(e, node, subscribed) ==
  LET st == [errors |-> e, node |-> node,
             felteValidationMessage |-> felteValidationMessage,
             ariaInvalid |-> ariaInvalid, applied |-> applied,
             written |-> {}, reflected |-> FALSE]
  IN IF subscribed THEN ReflectErrors(st) ELSE st

(***************************************************************************)
(* form(node): lines 186-216 and 377-402.                                  *)
(***************************************************************************)
\* a faulty variant of the merge of line 214: the operands are swapped, so
\* that the declared defaults win over the supplied values
BindInitialValues_defaultsWin(defaultData, supplied) ==
  _merge(supplied, defaultData)

\* line 214: the initial values are the defaults overlaid with the supplied ones
BindInitialValues(defaultData, supplied) == _merge(defaultData, supplied)

\* line 216
BindTouched(values) == deepSet(values, Bool(FALSE))

form ==
  /\ Len(bindings) < MaxBind
  /\ nInst + NumExtenders <= MaxInst
  /\ currentExtenders' = NewExtenders(nInst)
  /\ nInst' = nInst + NumExtenders
  /\ formNode' = TRUE
  /\ initialValues' = BindInitialValues(getFormDefaultValues(dom), initialValues)
  /\ data' = initialValues'
  /\ touched' = BindTouched(initialValues')
  /\ bindings' = Append(bindings, 0)
  /\ pending' = Append(pending, <<>>)
  /\ submitListener' = TRUE
  /\ LET r == NotifyErrors(errors, dom, TRUE)
     IN /\ felteValidationMessage' = r.felteValidationMessage
        /\ ariaInvalid' = r.ariaInvalid
        /\ applied' = r.applied
        /\ last' = BindStep(r.written)
  /\ UNCHANGED <<errors, warnings, isSubmitting, isDirty, config, nodeVars,
                 destroyCount, subs, budgets>>

(***************************************************************************)
(* destroy() of a binding: lines 405-413.                                  *)
(***************************************************************************)
destroy(b) ==
  /\ b \in DOMAIN bindings
  /\ bindings[b] < MaxDestroyCalls
  /\ bindings' = [bindings EXCEPT ![b] = @ + 1]
  /\ pending' = [pending EXCEPT ![b] = <<>>]
  /\ submitListener' = FALSE
  /\ destroyCount' = DestroyAll(destroyCount, currentExtenders)
  /\ last' = NoStep
  /\ UNCHANGED <<stores, config, initialValues, formNode, domVars,
                 currentExtenders, nInst, subs, budgets>>

(***************************************************************************)
(* The event handlers: lines 218-316.  An event reaches the handlers of    *)
(* every live binding; they are closures over the same stores and the same *)
(* node, and running one twice leaves what running it once leaves.         *)
(***************************************************************************)
\* helpers.setTouched(path, true)
setTouched(t, path) == _set(t, path, Bool(TRUE))

\* the controls querySelectorAll(`[name="${target.name}"]`) finds
SameName(c, node) == {d \in node : Ctl(d).name = Ctl(c).name}

\* setCheckboxValues(target): lines 218-249
setCheckboxValues(d, c, node, chk) ==
  LET checkboxes == InOrder({x \in SameName(c, node) : getPath(x) = getPath(c)})
      inputs == SelectSeq(checkboxes, isInputElement)
      on == SelectSeq(inputs, LAMBDA x : x \in chk)
  IN IF Len(checkboxes) = 0 THEN d
     ELSE IF Len(checkboxes) = 1 THEN _set(d, getPath(c), Bool(c \in chk))
     ELSE _set(d, getPath(c), <<"arr", [i \in 1..Len(on) |-> Ctl(on[i]).value]>>)

\* setRadioValues(target): lines 251-257
setRadioValues(d, c, node, chk) ==
  LET radios == InOrder(SameName(c, node))
      on == SelectSeq(radios, LAMBDA x : isInputElement(x) /\ x \in chk)
  IN _set(d, getPath(c), IF on = <<>> THEN Undef ELSE Str(Ctl(on[1]).value))

\* a faulty variant of lines 272-280: the ignore marker and the name are
\* not looked at
InputWrites_anyControl(c) ==
  /\ ~isSelectElement(c)
  /\ Ctl(c).type \notin {"checkbox", "radio", "file"}

\* handleInput: lines 270-287
InputWrites(c) ==
  /\ ~isSelectElement(c)
  /\ ~shouldIgnore(c)
  /\ Ctl(c).type \notin {"checkbox", "radio", "file"}
  /\ Ctl(c).name /= ""

handleInput(c, v) ==
  /\ bindings /= <<>>
  /\ nEvents < MaxEvents
  /\ c \in dom
  /\ nEvents' = nEvents + 1
  /\ last' = EventStep("input", c, v)
  /\ IF LiveBindings /= {} /\ InputWrites(c)
     THEN /\ touched' = IF config.touchTriggerEvents.input
                         THEN setTouched(touched, getPath(c)) ELSE touched
          /\ isDirty' = TRUE
          /\ data' = _set(data, getPath(c), Str(v))
     ELSE UNCHANGED <<touched, isDirty, data>>
  /\ UNCHANGED <<errors, warnings, isSubmitting, config, bindVars, domVars,
                 extenderVars, subs, nMutations>>

\* handleChange: lines 289-309.  The event follows the change of the
\* control: a checkbox has been toggled, a radio has been checked (and the
\* radios of its name unchecked), a select has a new value, a file input
\* has a file.
Toggled(c, node, chk) ==
  CASE Ctl(c).type = "checkbox" ->
         IF c \in chk THEN chk \ {c} ELSE chk \cup {c}
    [] Ctl(c).type = "radio" ->
         (chk \ {d \in SameName(c, node) : Ctl(d).type = "radio"}) \cup {c}
    [] OTHER -> chk

ChangeHandled(c) == ~shouldIgnore(c) /\ Ctl(c).name /= ""

\* a faulty variant of lines 294-299: every change marks the form dirty
ChangeDirties_always(c) == TRUE

ChangeDirties(c) ==
  isSelectElement(c) \/ Ctl(c).type \in {"checkbox", "radio", "file"}

ChangeData(d, c, v, node, chk) ==
  CASE isSelectElement(c) -> _set(d, getPath(c), Str(v))
    [] Ctl(c).type = "checkbox" -> setCheckboxValues(d, c, node, chk)
    [] Ctl(c).type = "radio" -> setRadioValues(d, c, node, chk)
    [] Ctl(c).type = "file" -> _set(d, getPath(c), <<"file", v>>)
    [] OTHER -> d

handleChange(c, v) ==
  /\ bindings /= <<>>
  /\ nEvents < MaxEvents
  /\ c \in dom
  /\ nEvents' = nEvents + 1
  /\ last' = EventStep("change", c, v)
  /\ checked' = Toggled(c, dom, checked)
  /\ IF LiveBindings /= {} /\ ChangeHandled(c)
     THEN /\ touched' = IF config.touchTriggerEvents.change
                         THEN setTouched(touched, getPath(c)) ELSE touched
          /\ isDirty' = (isDirty \/ ChangeDirties(c))
          /\ data' = ChangeData(data, c, v, dom, checked')
     ELSE UNCHANGED <<touched, isDirty, data>>
  /\ UNCHANGED <<errors, warnings, isSubmitting, config, bindVars, page, dom,
                 felteValidationMessage, ariaInvalid, applied,
                 extenderVars, subs, nMutations>>

\* handleBlur: lines 311-316
handleBlur(c) ==
  /\ bindings /= <<>>
  /\ nEvents < MaxEvents
  /\ c \in dom
  /\ nEvents' = nEvents + 1
  /\ last' = EventStep("blur", c, "")
  /\ touched' = IF LiveBindings /= {}
                   /\ ~shouldIgnore(c) /\ Ctl(c).name /= ""
                   /\ config.touchTriggerEvents.blur
                THEN setTouched(touched, getPath(c)) ELSE touched
  /\ UNCHANGED <<data, errors, warnings, isSubmitting, isDirty, config,
                 bindVars, domVars, extenderVars, subs, nMutations>>

(***************************************************************************)
(* The mutation observer: lines 320-375.  The callback works on the four   *)
(* stores and the extender instances, gathered in a record.  A node of a   *)
(* mutation record is either a control itself or a node that holds a set   *)
(* of controls (empty for a text node or an element without controls).     *)
(***************************************************************************)
\* a text node, or an element that is not a control and holds the controls S
Element(S) == [isFormControl |-> FALSE, controls |-> S]

\* a node that is the control c
ControlNode(c) == [isFormControl |-> TRUE, controls |-> {c}]

\* the nodes that can be made of the controls of S
Nodes(S) == {Element(A) : A \in SUBSET S} \cup {ControlNode(c) : c \in S}

\* lines 353-354 and 369-370: destroy the live instances, create new ones
Remount(st) ==
  [st EXCEPT !.destroyCount = DestroyAll(st.destroyCount, st.currentExtenders),
             !.currentExtenders = NewExtenders(st.nInst),
             !.nInst = st.nInst + NumExtenders]

\* a set or update of a store calls its subscribers, which see the four
\* stores as they are at that moment
Notify(st, store) ==
  [st EXCEPT !.seen = @ \cup {[store |-> store,
                               data |-> st.data, touched |-> st.touched,
                               errors |-> st.errors, warnings |-> st.warnings,
                               felteValidationMessage |-> st.felteValidationMessage,
                               ariaInvalid |-> st.ariaInvalid]}]

\* lines 322-326
KeepOnRemove(c) == Ctl(c).keep /= "absent" /\ Ctl(c).keep /= "false"

\* lines 327-338
UnsetControl(st, c) ==
  LET s0 == ReflectErrors([st EXCEPT !.errors = _unset(@, getPathFromDataset(c))])
      s1 == Notify(s0, "errors")
      s2 == Notify([s1 EXCEPT !.warnings = _unset(@, getPathFromDataset(c))],
                   "warnings")
      s3 == Notify([s2 EXCEPT !.touched = _unset(@, getPathFromDataset(c))],
                   "touched")
  IN Notify([s3 EXCEPT !.data = _unset(@, getPathFromDataset(c))], "data")

\* unsetTaggedForRemove(formControls.reverse()): lines 320-340
RECURSIVE UnsetEach(_, _)
UnsetEach(st, cs) ==
  IF cs = <<>> THEN st
  ELSE UnsetEach(IF KeepOnRemove(Head(cs)) THEN st ELSE UnsetControl(st, Head(cs)),
                 Tail(cs))

unsetTaggedForRemove(st, formControls) == UnsetEach(st, Reverse(formControls))

\* a faulty variant of line 359: the defaults overwrite what the store holds
GrowData_overwrite(d, newDefaultData) == _merge(d, newDefaultData)

\* line 359
GrowData(d, newDefaultData) == _defaultsDeep(d, newDefaultData)

\* lines 358 and 360-362
GrowTouched(t, newDefaultData) ==
  _defaultsDeep(t, deepSet(newDefaultData, Bool(FALSE)))

\* a faulty variant of lines 346-351: any added node counts
shouldUpdate_anyNode(addedNodes) == Len(addedNodes) > 0

\* lines 346-351
shouldUpdate(addedNodes) ==
  \E i \in DOMAIN addedNodes :
    \/ addedNodes[i].isFormControl
    \/ Len(getFormControls(addedNodes[i].controls)) > 0

\* lines 353-362
Grow(st, node) ==
  LET r == Remount(st)
      newDefaultData == getFormDefaultValues(node)
      s1 == Notify([r EXCEPT !.data = GrowData(@, newDefaultData)], "data")
  IN Notify([s1 EXCEPT !.touched = GrowTouched(@, newDefaultData)], "touched")

\* lines 364-373
RECURSIVE Shrink(_, _)
Shrink(st, removedNodes) ==
  IF removedNodes = <<>> THEN st
  ELSE LET formControls == getFormControls(Head(removedNodes).controls)
       IN Shrink(IF Len(formControls) = 0 THEN st
                 ELSE unsetTaggedForRemove(Remount(st), formControls),
                 Tail(removedNodes))

\* line 352: a record whose added nodes hold no control is left at once
SkipsRecord(mutation) ==
  Len(mutation.addedNodes) > 0 /\ ~shouldUpdate(mutation.addedNodes)

\* the body of the loop of mutationCallback for one record: lines 344-373
OnMutation(st, mutation, node) ==
  IF SkipsRecord(mutation) THEN st
  ELSE Shrink(IF Len(mutation.addedNodes) > 0 THEN Grow(st, node) ELSE st,
              mutation.removedNodes)

\* mutationCallback(mutationList): the loop of line 343
RECURSIVE OnMutationList(_, _, _)
OnMutationList(st, mutationList, node) ==
  IF mutationList = <<>> THEN st
  ELSE OnMutationList(OnMutation(st, Head(mutationList), node),
                      Tail(mutationList), node)

\* the callbacks of the observers bs, one after the other, each with the
\* records it has to deliver
RECURSIVE Callbacks(_, _, _, _)
Callbacks(bs, st, queues, node) ==
  IF bs = <<>> THEN st
  ELSE Callbacks(Tail(bs), OnMutationList(st, queues[Head(bs)], node),
                 queues, node)

\* the records of one change of the children of the form: at most one
\* added and one removed node
MutationRecords ==
  {[addedNodes |-> a, removedNodes |-> r] :
     a \in {<<>>} \cup {<<A>> : A \in Nodes(page \ dom)},
     r \in {<<>>} \cup {<<R>> : R \in Nodes(dom)}}
  \ {[addedNodes |-> <<>>, removedNodes |-> <<>>]}

NodeControls(nodes) == UNION {nodes[i].controls : i \in DOMAIN nodes}

\* the controls of the nodes added, and removed, by the records of a list
AddedControls(mutationList) ==
  UNION {NodeControls(mutationList[i].addedNodes) : i \in DOMAIN mutationList}
RemovedControls(mutationList) ==
  UNION {NodeControls(mutationList[i].removedNodes) : i \in DOMAIN mutationList}

\* the continuations that can run before the callback of the observers:
\* those of the awaits of the invocations in flight when the microtask of
\* the observers is queued (ahead), each of them once
MarkAhead(s, ahead) ==
  [i \in DOMAIN s |-> [s[i] EXCEPT !.ahead = ahead /\ s[i].pc /= "settled"]]

\* a script changes the children of the form once it has been bound: the
\* observer of every live binding (lines 377-379) queues the record, and
\* its callback runs later, in a microtask
changeChildren(mutation) ==
  LET node == (dom \ NodeControls(mutation.removedNodes))
                \cup NodeControls(mutation.addedNodes)
  IN /\ bindings /= <<>>
     /\ nMutations < MaxMutations
     /\ mutation \in MutationRecords
     /\ dom' = node
     /\ checked' = (checked \cap node)
                     \cup {c \in NodeControls(mutation.addedNodes) :
                            Ctl(c).defaultChecked}
     /\ pending' = [b \in DOMAIN pending |->
                      IF b \in LiveBindings THEN Append(pending[b], mutation)
                      ELSE pending[b]]
     /\ subs' = IF ~Pending /\ LiveBindings /= {} THEN MarkAhead(subs, TRUE)
                ELSE subs
     /\ nMutations' = nMutations + 1
     /\ last' = ChildrenStep
     /\ UNCHANGED <<stores, config, initialValues, formNode, bindings,
                    submitListener, page, felteValidationMessage, ariaInvalid,
                    applied,
                    extenderVars, nEvents>>

\* the microtask of the observers: the callback of every live binding that
\* has records to deliver runs with them (mutationCallback, lines 342-375),
\* on the form as it is now
mutationCallback ==
  LET st == [data |-> data, touched |-> touched, errors |-> errors,
             warnings |-> warnings, currentExtenders |-> currentExtenders,
             nInst |-> nInst, destroyCount |-> destroyCount, seen |-> {},
             node |-> dom, felteValidationMessage |-> felteValidationMessage,
             ariaInvalid |-> ariaInvalid, applied |-> applied,
             written |-> {}, reflected |-> FALSE]
      observers == InOrder({b \in LiveBindings : pending[b] /= <<>>})
      r == Callbacks(observers, st, pending, dom)
  IN /\ Pending
     /\ r.nInst <= MaxInst
     /\ data' = r.data
     /\ touched' = r.touched
     /\ errors' = r.errors
     /\ warnings' = r.warnings
     /\ currentExtenders' = r.currentExtenders
     /\ nInst' = r.nInst
     /\ destroyCount' = r.destroyCount
     /\ felteValidationMessage' = r.felteValidationMessage
     /\ ariaInvalid' = r.ariaInvalid
     /\ applied' = r.applied
     /\ pending' = [b \in DOMAIN pending |-> <<>>]
     /\ subs' = MarkAhead(subs, FALSE)
     /\ last' = MutationStep(pending[Head(observers)], r.seen, r.written,
                             r.reflected)
     /\ UNCHANGED <<isSubmitting, isDirty, config, initialValues, formNode,
                    bindings, submitListener, nodeVars, budgets>>


(***************************************************************************)
(* The handler createSubmitHandler(altConfig) returns: lines 124-182.      *)
(* One invocation runs in four steps, cut where the code awaits: the call  *)
(* up to the await of the validation (lines 126-138), the part up to the   *)
(* await of the warnings (138-139), the part up to the await of the submit *)
(* action or the return after a failed validation (139-160), and what      *)
(* follows the submit action (160-180).  The locals of an invocation live  *)
(* in subs until it settles; last tells what a step showed its callers.    *)
(***************************************************************************)
\* what validation functions, warning functions and onError can return
ValidationResults ==
  { Undef,
    Obj([name |-> Null]),
    Obj([name |-> Null,
         user |-> Obj([email |-> <<"arr", <<"invalid", "taken">> >>])]) }

WarnResults == {Undef, Obj([name |-> Str("short")])}

OnErrorResults == {Undef, Obj([name |-> Str("taken")]), Obj([name |-> Str("")])}

\* the ways an awaited function set settles: with one of its results, or
\* with a failure; executeValidation without functions yields undefined
Outcomes(defined, results) ==
  IF defined
  THEN {[throws |-> FALSE, result |-> r] : r \in results}
         \cup {[throws |-> TRUE, result |-> Undef]}
  ELSE {[throws |-> FALSE, result |-> Undef]}

\* lines 127-130: altConfig?.onSubmit ?? config.onSubmit ??
\* createDefaultSubmitHandler(formNode)
ResolveOnSubmit(alt, cfg, node) ==
  IF alt THEN "alt" ELSE IF cfg THEN "config" ELSE IF node THEN "default"
  ELSE "none"

\* a faulty variant of lines 134-135: preventDefault before the return
Prevents_beforeReturn(onSubmit, event) == event

\* lines 134-135: the default action is prevented once onSubmit is resolved
Prevents(onSubmit, event) == event /\ onSubmit /= "none"

\* line 136, after the return of line 134
SetsSubmitting(onSubmit) == onSubmit /= "none"

\* line 137
Snapshot(d) == d

\* line 138: the validation functions run when the handler goes on
RunsValidation(onSubmit, validate) == onSubmit /= "none" /\ validate

\* a faulty variant of line 147: only the top level of the tree is looked at
hasErrors_shallow(currentErrors) ==
  /\ currentErrors /= Undef
  /\ IsObj(currentErrors)
  /\ \E k \in Keys(currentErrors) :
       ~IsObj(Kids(currentErrors)[k]) /\ Truthy(Kids(currentErrors)[k])

\* line 145 and line 147
hasErrors(currentErrors) == currentErrors /= Undef /\ deepSome(currentErrors)

\* a faulty variant of lines 145-157: a warning stops the handler as an
\* error does
Stops_onWarnings(currentErrors, currentWarnings) ==
  hasErrors(currentErrors) \/ hasErrors(currentWarnings)

\* lines 145-157: the handler returns before the submit action when the
\* validation found an error, whatever the warning functions returned
Stops(currentErrors, currentWarnings) == hasErrors(currentErrors)

\* line 160: the data handed to the submit action
SubmitArg(sub) == sub.currentData

\* lines 140-141
StoreWarnings(w, currentData, currentWarnings) ==
  IF currentWarnings /= Undef
  THEN _merge(deepSet(currentData, Null), currentWarnings)
  ELSE w

\* a faulty variant of lines 142-144: touched is left for later
TouchAll_later(t) == t

\* lines 142-144
TouchAll(t) == deepSet(t, Bool(TRUE))

\* lines 145-146
StoreErrors(e, currentErrors) ==
  IF currentErrors /= Undef THEN currentErrors ELSE e

\* lines 149-154 and 171-176: the hooks are called in order, up to the
\* first one that fails (throwAt, 0 when none does)
HookCalls(cur, throwAt, snapshot, errs) ==
  [i \in 1..(IF throwAt = 0 THEN Len(cur) ELSE throwAt) |->
     [instance |-> cur[i], data |-> snapshot, errors |-> errs]]

\* lines 155 and 179: isSubmitting.set(false) on the paths that reach it
ReleaseAfterValidation(s, hookFailed) == IF hookFailed THEN s ELSE FALSE
ReleaseAfterSubmit(s) == FALSE

\* a faulty variant of line 167: the failure is always raised again
CallsOnError_never(ok, onError) == FALSE

\* lines 167-168: onError is called, when there is one, with the failure
CallsOnError(ok, onError) == ~ok /\ onError

\* the locals of an invocation that has settled
SettledSub ==
  [pc |-> "settled", live |-> FALSE, ahead |-> FALSE,
   validate |-> FALSE, warn |-> FALSE, onError |-> FALSE,
   trigData |-> Undef, currentData |-> Undef, currentErrors |-> Undef,
   calls |-> 0, arg |-> Undef]

\* live: the form had a live binding when the handler was invoked
NewSubmission(fns) ==
  [pc |-> "validate", live |-> LiveBindings /= {}, ahead |-> FALSE,
   validate |-> fns.validate, warn |-> fns.warn,
   onError |-> fns.onError, trigData |-> data, currentData |-> Snapshot(data),
   currentErrors |-> Undef, calls |-> 0, arg |-> Undef]

\* what a step of invocation i shows
Step(i, name) ==
  [kind |-> "submit", step |-> name, sub |-> i, settled |-> FALSE,
   override |-> FALSE, event |-> FALSE, listener |-> FALSE, raised |-> FALSE,
   resolved |-> TRUE, failure |-> "none", prevented |-> FALSE,
   validateCalls |-> 0, warnCalls |-> 0, warned |-> Undef,
   calls |-> 0, arg |-> Undef,
   onErrorArg |-> "none", recovered |-> Undef, hookCalls |-> <<>>,
   written |-> {}, reflected |-> FALSE]

\* the functions a handler uses: altConfig?.x ?? config.x, lines 131-133
Effective(alt) ==
  [validate |-> alt.validate \/ config.fns.validate,
   warn |-> alt.warn \/ config.fns.warn,
   onError |-> alt.onError \/ config.fns.onError]

\* lines 125-138: a handler is invoked; listener says that it is the
\* form's submit event reaching the handleSubmit registered at line 383
handleSubmit(alt, event, listener) ==
  LET onSubmit == ResolveOnSubmit(alt.onSubmit, config.fns.onSubmit, formNode)
      i == Len(subs) + 1
  IN /\ Len(subs) < MaxSubs
     /\ listener => (submitListener /\ event /\ alt = NoFunctions)
     /\ subs' = Append(subs, IF onSubmit = "none" THEN SettledSub
                             ELSE NewSubmission(Effective(alt)))
     /\ isSubmitting' = (isSubmitting \/ SetsSubmitting(onSubmit))
     /\ last' = [Step(i, "invoked") EXCEPT
                   !.settled = (onSubmit = "none"),
                   !.override = alt.onSubmit,
                   !.event = event,
                   !.listener = listener,
                   !.resolved = (onSubmit /= "none"),
                   !.prevented = Prevents(onSubmit, event),
                   !.validateCalls =
                      IF RunsValidation(onSubmit, Effective(alt).validate)
                      THEN 1 ELSE 0]
     /\ UNCHANGED <<data, touched, errors, warnings, isDirty, config,
                    bindVars, domVars, extenderVars, budgets>>

\* line 138 settles
Validated(i, o) ==
  /\ i \in DOMAIN subs
  /\ subs[i].pc = "validate"
  /\ Pending => subs[i].ahead
  /\ o \in Outcomes(subs[i].validate, ValidationResults)
  /\ subs' = [subs EXCEPT ![i] =
       IF o.throws THEN SettledSub
       ELSE [@ EXCEPT !.pc = "warn", !.ahead = FALSE,
                      !.currentErrors = o.result]]
  /\ last' = [Step(i, "validated") EXCEPT
                !.settled = o.throws,
                !.failure = IF o.throws THEN "validate" ELSE "none",
                !.warnCalls = IF ~o.throws /\ subs[i].warn THEN 1 ELSE 0]
  /\ UNCHANGED <<stores, config, bindVars, domVars, extenderVars, budgets>>

\* line 139 settles; lines 140-160 follow
Warned(i, o, throwAt) ==
  /\ i \in DOMAIN subs
  /\ subs[i].pc = "warn"
  /\ Pending => subs[i].ahead
  /\ o \in Outcomes(subs[i].warn, WarnResults)
  /\ throwAt \in 0..Len(currentExtenders)
  /\ LET sub == subs[i]
         stops == Stops(sub.currentErrors, o.result)
         n == NotifyErrors(StoreErrors(errors, sub.currentErrors), dom,
                           sub.currentErrors /= Undef /\ LiveBindings /= {})
     IN /\ (throwAt > 0) => (~o.throws /\ stops)
        /\ IF o.throws
           THEN /\ subs' = [subs EXCEPT ![i] = SettledSub]
                /\ last' = [Step(i, "warned") EXCEPT
                              !.settled = TRUE, !.failure = "warn"]
                /\ UNCHANGED <<stores, felteValidationMessage, ariaInvalid, applied>>
           ELSE /\ felteValidationMessage' = n.felteValidationMessage
                /\ ariaInvalid' = n.ariaInvalid
                /\ applied' = n.applied
                /\ warnings' = StoreWarnings(warnings, sub.currentData, o.result)
                /\ touched' = TouchAll(touched)
                /\ errors' = StoreErrors(errors, sub.currentErrors)
                /\ isSubmitting' =
                     IF stops THEN ReleaseAfterValidation(isSubmitting, throwAt > 0)
                     ELSE isSubmitting
                /\ subs' = [subs EXCEPT ![i] =
                     IF stops THEN SettledSub
                     ELSE [@ EXCEPT !.pc = "submit", !.ahead = FALSE,
                                    !.calls = @ + 1,
                                    !.arg = SubmitArg(sub)]]
                /\ last' = IF stops
                           THEN [Step(i, "warned") EXCEPT
                                   !.settled = TRUE,
                                   !.written = n.written,
                                   !.reflected = n.reflected,
                                   !.warned = o.result,
                                   !.failure = IF throwAt > 0 THEN "hook"
                                               ELSE "none",
                                   !.hookCalls =
                                      HookCalls(currentExtenders, throwAt,
                                        sub.currentData, sub.currentErrors)]
                           ELSE [Step(i, "warned") EXCEPT
                                   !.written = n.written,
                                   !.reflected = n.reflected,
                                   !.warned = o.result,
                                   !.calls = sub.calls + 1,
                                   !.arg = SubmitArg(sub)]
                /\ UNCHANGED <<data, isDirty>>
  /\ UNCHANGED <<config, bindVars, nodeVars, extenderVars, budgets>>

\* line 160 settles; lines 166-180 follow.  ok: the submit action
\* completed; otherwise it raised a failure, and r is what onError does
\* with it when there is one: it returns r.result or fails itself
Submitted(i, ok, r, throwAt) ==
  /\ i \in DOMAIN subs
  /\ subs[i].pc = "submit"
  /\ Pending => subs[i].ahead
  /\ r \in Outcomes(CallsOnError(ok, subs[i].onError), OnErrorResults)
  /\ throwAt \in 0..Len(currentExtenders)
  /\ LET sub == subs[i]
         called == CallsOnError(ok, sub.onError)
         notifies == called /\ ~r.throws /\ r.result /= Undef
         n == NotifyErrors(IF notifies THEN r.result ELSE errors, dom,
                           notifies /\ LiveBindings /= {})
     IN /\ (throwAt > 0) => notifies
        /\ errors' = IF notifies THEN r.result ELSE errors
        /\ felteValidationMessage' = n.felteValidationMessage
        /\ ariaInvalid' = n.ariaInvalid
        /\ applied' = n.applied
        /\ isSubmitting' = ReleaseAfterSubmit(isSubmitting)
        /\ subs' = [subs EXCEPT ![i] = SettledSub]
        /\ last' = [Step(i, "submitted") EXCEPT
                      !.settled = TRUE,
                      !.raised = ~ok,
                      !.calls = sub.calls,
                      !.failure = IF ok THEN "none"
                                  ELSE IF ~called THEN "submit"
                                  ELSE IF r.throws THEN "onError"
                                  ELSE IF throwAt > 0 THEN "hook" ELSE "none",
                      !.onErrorArg = IF called THEN "submit" ELSE "none",
                      !.recovered = r.result,
                      !.written = n.written,
                      !.reflected = n.reflected,
                      !.hookCalls = IF notifies
                                    THEN HookCalls(currentExtenders, throwAt,
                                           sub.currentData, r.result)
                                    ELSE <<>>]
  /\ UNCHANGED <<data, touched, warnings, isDirty, config, bindVars, nodeVars,
                 extenderVars, budgets>>

(***************************************************************************)
(* The specifications.  Spec has every operation.  The others keep the     *)
(* operations of one part of the program: the submit handlers running      *)
(* concurrently (SpecSubmit), one submit handler with the events and the   *)
(* mutation observer (SpecForm), bindings, mutation observer and extender  *)
(* instances (SpecExtenders), and one binding with everything that can     *)
(* happen before and after its destroy() (SpecUnbind).                     *)
(***************************************************************************)
Invoke ==
  \E alt \in AltConfigs, event \in BOOLEAN, listener \in BOOLEAN :
    handleSubmit(alt, event, listener)

Settle ==
  \/ \E i \in DOMAIN subs :
       \E o \in Outcomes(TRUE, ValidationResults) : Validated(i, o)
  \/ \E i \in DOMAIN subs :
       \E o \in Outcomes(TRUE, WarnResults), t \in 0..NumExtenders :
         Warned(i, o, t)
  \/ \E i \in DOMAIN subs :
       \E ok \in BOOLEAN, r \in Outcomes(TRUE, OnErrorResults),
          t \in 0..NumExtenders : Submitted(i, ok, r, t)

Events ==
  \/ \E c \in Controls, v \in TextValues : handleInput(c, v)
  \/ \E c \in Controls, v \in TextValues : handleChange(c, v)
  \/ \E c \in Controls : handleBlur(c)

Mutate ==
  \/ \E m \in MutationRecords : changeChildren(m)
  \/ mutationCallback

\* the same with one change of the children only
MutateOnce ==
  \/ (nMutations < MaxMutationsEdited
        /\ \E m \in MutationRecords : changeChildren(m))
  \/ mutationCallback

Destroy == \E b \in DOMAIN bindings : destroy(b)

Next == form \/ Destroy \/ Events \/ Mutate \/ Invoke \/ Settle

Spec == Init /\ [][Next]_vars

NextSubmit == form \/ Invoke \/ Settle

SpecSubmit == Init /\ [][NextSubmit]_vars

NextForm ==
  \/ (Len(bindings) < MaxBindEdited /\ form)
  \/ Events
  \/ MutateOnce
  \/ (Len(subs) < MaxSubsEdited /\ Invoke)
  \/ Settle

\* the form starts with the controls name and subscribe and no supplied
\* initial values; user.email can be added to it
InitForm == InitWith(BasicPage, {{1, 3}}) /\ initialValues = EmptyObj

SpecForm == InitForm /\ [][NextForm]_vars

\* one binding, the events on its controls and two changes of the children
\* of the form, delivered to the observer together or one by one
NextChildren ==
  \/ (Len(bindings) < MaxBindEdited /\ form)
  \/ Events
  \/ Mutate

SpecChildren == Init /\ [][NextChildren]_vars

NextExtenders == form \/ Destroy \/ Mutate

SpecExtenders == Init /\ [][NextExtenders]_vars

\* one binding, its destroy(), and what happens to the form afterwards
NextUnbind ==
  \/ (bindings = <<>> /\ form)
  \/ Destroy
  \/ Events
  \/ MutateOnce
  \/ (Len(subs) < MaxSubsEdited /\ Invoke)
  \/ Settle

SpecUnbind == InitForm /\ [][NextUnbind]_vars

\* a form with controls of every kind, with and without the ignore marker
\* and a name, and the events on them
InitKinds == InitWith(KindsPage, {KindsPage})

NextKinds == form \/ Events

SpecKinds == InitKinds /\ [][NextKinds]_vars

\* a form of one or two checkboxes of the same name, its events and the
\* changes of its children
InitGroup == InitWith(GroupPage, {{11}, GroupPage})
NextGroup == form \/ Events \/ Mutate
SpecGroup == InitGroup /\ [][NextGroup]_vars

\* a form with controls that carry the ignore marker, which are added and
\* removed, alone or inside other elements
InitMarked == InitWith(MarkedPage, {{1}, {1, 4}})
NextMarked ==
  \/ (Len(bindings) < MaxBindEdited /\ form)
  \/ Destroy
  \/ Events
  \/ Mutate
SpecMarked == InitMarked /\ [][NextMarked]_vars

(***************************************************************************)
(* Properties.  A property about what one step does is an action formula   *)
(* over the state before the step and the state after it; last' is what    *)
(* the step showed its callers.                                            *)
(***************************************************************************)

\* C1: every exit path of a handler invocation that resolved a submit
\* action leaves isSubmitting false, whether it completes or fails (a
\* failure of the validation or warning functions, of an onSubmitError
\* hook or of onError included).  The code does not have this property:
\* lines 138-157 are outside the try/finally of lines 159-180.
C1_SubmittingReleasedOnExit ==
  (last.kind = "submit" /\ last.settled /\ last.resolved) => ~isSubmitting

\* C2: when the validation functions return a tree with a truthy error,
\* the submit action is never invoked for that invocation; and when the
\* handler returns, errors holds exactly the returned tree, every path of
\* touched is true and isSubmitting is false.
C2_ValidationErrorsStopSubmission ==
  [][\A i \in DOMAIN subs :
       (subs[i].pc = "warn" /\ deepSome(subs[i].currentErrors)) =>
         /\ subs'[i].pc /= "submit"
         /\ subs'[i].pc = "settled" => (last'.calls = 0 /\ last'.arg = Undef)
         /\ (subs'[i].pc = "settled" /\ last'.failure = "none") =>
              /\ errors' = subs[i].currentErrors
              /\ \A p \in LeafPaths(touched') : _get(touched', p) = Bool(TRUE)
              /\ ~isSubmitting']_vars

\* C2, witness: a handler has just returned after a validation with a
\* truthy error; the tree is in errors and the paths of the form are touched
C2_Witness ==
  /\ last.kind = "submit" /\ last.step = "warned"
  /\ last.settled /\ last.failure = "none" /\ last.calls = 0
  /\ deepSome(errors)
  /\ LeafPaths(touched) /= {}
  /\ \A p \in LeafPaths(touched) : _get(touched, p) = Bool(TRUE)
  /\ ~isSubmitting

\* C3: when validation yields no truthy error, the submit action is invoked
\* exactly once per handler invocation, with the content of the data store
\* at the time the handler was triggered, whatever the events and the
\* changes of the form did to the store while the validation and the
\* warnings were awaited.  The code does not have this property: a warning
\* function that fails ends the invocation before the submit action is
\* called (line 139 is outside the try of lines 159-180, see C1).
C3_SubmitExactlyOnce ==
  [][\A i \in DOMAIN subs :
       (subs[i].pc = "warn" /\ ~deepSome(subs[i].currentErrors)) =>
         /\ subs'[i].pc /= "warn" =>
              /\ subs'[i].pc = "submit"
              /\ subs'[i].calls = 1
              /\ subs'[i].arg = subs[i].trigData]_vars

\* C4: under any interleaving of handler invocations, isSubmitting is true
\* exactly when at least one submission is in flight.  The code does not
\* have this property: the first invocation to finish sets isSubmitting to
\* false while another is in flight, and a failing validation leaves it
\* true with none in flight.
C4_SubmittingIffInFlight ==
  isSubmitting <=> (\E i \in DOMAIN subs : subs[i].pc /= "settled")

\* C5: every extender instance that was created is destroyed exactly once
\* when it stops being current or when its binding is destroyed: never
\* more than once, and never left without a call of its destroy hook once
\* it has been replaced.  The code does not have this property: form()
\* replaces the current instances without destroying them and destroy()
\* called again destroys them again.
C5_ExtendersDestroyedOnce ==
  \A i \in 1..nInst :
    /\ destroyCount[i] <= 1
    /\ (\A j \in DOMAIN currentExtenders : currentExtenders[j] /= i)
         => destroyCount[i] = 1

\* C6, as stated: when the submit action fails, without onError the
\* handler fails with the same failure; with onError the handler completes
\* without failure, and when onError returns a tree the tree is stored in
\* errors and every current extender is notified once with the snapshot
\* and that tree, and when it returns nothing errors is unchanged and no
\* extender is notified.  The code does not have this property: onError or
\* an onSubmitError hook can itself fail, and then the handler fails.
C6_SubmitFailureHandled ==
  [][\A i \in DOMAIN subs :
       (subs[i].pc = "submit" /\ subs'[i].pc = "settled" /\ last'.raised) =>
         IF ~subs[i].onError
         THEN last'.failure = "submit" /\ last'.onErrorArg = "none"
         ELSE /\ last'.onErrorArg = "submit"
              /\ last'.failure = "none"
              /\ IF last'.recovered /= Undef
                 THEN /\ errors' = last'.recovered
                      /\ Len(last'.hookCalls) = Len(currentExtenders)
                      /\ \A k \in DOMAIN last'.hookCalls :
                           last'.hookCalls[k] =
                             [instance |-> currentExtenders[k],
                              data |-> subs[i].trigData,
                              errors |-> last'.recovered]
                 ELSE errors' = errors /\ last'.hookCalls = <<>>]_vars

\* C6, amended: when the submit action fails, without onError the handler
\* fails with the same failure and nothing is stored or notified; with
\* onError, onError receives that failure and the handler does not fail
\* with it: it completes without failure unless onError or a hook itself
\* fails.  When onError returns a tree, the tree is stored in errors and
\* the current extenders are notified in order, each once, with the
\* snapshot and that tree, all of them unless a hook fails; when onError
\* returns nothing or fails, errors is unchanged and no extender is
\* notified.  isSubmitting is false afterwards in every case.
C6_SubmitFailureHandledUnlessRecoveryFails ==
  [][\A i \in DOMAIN subs :
       (subs[i].pc = "submit" /\ subs'[i].pc = "settled" /\ last'.raised) =>
         /\ ~isSubmitting'
         /\ IF ~subs[i].onError
            THEN /\ last'.failure = "submit" /\ last'.onErrorArg = "none"
                 /\ errors' = errors /\ last'.hookCalls = <<>>
            ELSE /\ last'.onErrorArg = "submit"
                 /\ last'.failure \in {"none", "onError", "hook"}
                 /\ IF last'.recovered /= Undef
                    THEN /\ errors' = last'.recovered
                         /\ last'.failure /= "onError"
                         /\ Len(last'.hookCalls) <= Len(currentExtenders)
                         /\ (last'.failure = "none") =>
                              (Len(last'.hookCalls) = Len(currentExtenders))
                         /\ (last'.failure = "hook") =>
                              (Len(last'.hookCalls) >= 1)
                         /\ \A k \in DOMAIN last'.hookCalls :
                              last'.hookCalls[k] =
                                [instance |-> currentExtenders[k],
                                 data |-> subs[i].trigData,
                                 errors |-> last'.recovered]
                    ELSE /\ errors' = errors
                         /\ last'.hookCalls = <<>>
                         /\ last'.failure /= "hook"]_vars

\* C6, witness: the submit action failed, onError returned a tree, the
\* tree is in errors and the current extender has been notified
C6_Witness ==
  /\ last.kind = "submit" /\ last.step = "submitted" /\ last.raised
  /\ last.onErrorArg = "submit"
  /\ last.failure = "none"
  /\ last.recovered /= Undef
  /\ errors = last.recovered
  /\ currentExtenders /= <<>>
  /\ Len(last.hookCalls) = Len(currentExtenders)
  /\ ~isSubmitting

\* C7: a handler invoked when no submit action can be resolved (no
\* override, none configured, no form node bound) does nothing: the
\* event's default action is not prevented, no validation or warning
\* function runs, and every store is left as it was.
C7_NoSubmitActionNoOp ==
  [][(/\ last'.kind = "submit" /\ last'.step = "invoked"
      /\ ~last'.override /\ ~config.fns.onSubmit /\ ~formNode) =>
       /\ ~last'.prevented
       /\ last'.validateCalls = 0 /\ last'.warnCalls = 0
       /\ last'.settled /\ last'.failure = "none"
       /\ subs'[last'.sub].pc = "settled"
       /\ stores' = stores]_vars

\* C7, witness: a handler with validation functions was invoked with an
\* event when no submit action could be resolved
C7_Witness ==
  /\ last.kind = "submit" /\ last.step = "invoked"
  /\ ~last.override /\ ~config.fns.onSubmit /\ ~formNode
  /\ last.event /\ ~last.prevented /\ ~last.resolved
  /\ ~isSubmitting

\* C8: removing a control from the bound form unsets its path in data,
\* touched, errors and warnings, unless the control has the keep-on-remove
\* marker with a value other than "false", in which case every store keeps
\* what it has at that path.  The code does not have this property: a
\* record that also has added nodes, none of them holding a control, is
\* left at line 352 before its removed nodes are looked at.
C8_RemovalUnsetsPath ==
  [][last'.kind = "mutation" =>
       \A c \in RemovedControls(last'.records) \ dom' :
         IF Ctl(c).keep \in {"absent", "false"}
         THEN /\ ~HasPath(data', getPath(c))
              /\ ~HasPath(touched', getPath(c))
              /\ ~HasPath(errors', getPath(c))
              /\ ~HasPath(warnings', getPath(c))
         ELSE /\ _get(data', getPath(c)) = _get(data, getPath(c))
              /\ _get(touched', getPath(c)) = _get(touched, getPath(c))
              /\ _get(errors', getPath(c)) = _get(errors, getPath(c))
              /\ _get(warnings', getPath(c)) = _get(warnings, getPath(c))]_vars

\* C9: when controls are added to the bound form, the defaults of the form
\* are merged into data and touched with the store winning: every path
\* that holds a value keeps exactly that value, and only the paths that
\* are absent are filled, with the declared default of the control in data
\* and with false in touched.
C9_GrowthFillsOnlyAbsentPaths ==
  [][(/\ last'.kind = "mutation"
      /\ RemovedControls(last'.records) = {}
      /\ AddedControls(last'.records) /= {}) =>
       /\ \A p \in LeafPaths(data) : _get(data', p) = _get(data, p)
       /\ \A p \in LeafPaths(touched) : _get(touched', p) = _get(touched, p)
       /\ \A p \in LeafPaths(data') \ LeafPaths(data) :
            \E c \in dom' : /\ getPath(c) = p
                            /\ _get(data', p) = DefaultValue(c, dom')
       /\ \A p \in LeafPaths(touched') \ LeafPaths(touched) :
            /\ \E c \in dom' : getPath(c) = p
            /\ _get(touched', p) = Bool(FALSE)
       /\ \A c \in dom' : /\ getPath(c) \in LeafPaths(data')
                          /\ getPath(c) \in LeafPaths(touched')]_vars

\* C9, witness: the control user.email was added to the bound form and
\* "Ada" was typed into it before the callback of the observer ran; the
\* callback has merged the defaults of the form, and data still has "Ada"
\* at the path of the added control, and its other paths
C9_Witness ==
  /\ last.kind = "mutation"
  /\ LiveBindings /= {}
  /\ AddedControls(last.records) = {2}
  /\ RemovedControls(last.records) = {}
  /\ _get(data, <<"user", "email">>) = Str("Ada")
  /\ _get(data, <<"user", "email">>) /= DefaultValue(2, dom)
  /\ HasPath(touched, <<"user", "email">>)
  /\ HasPath(data, <<"name">>)

\* C10: binding the form sets data to the declared defaults of the form
\* merged with the supplied initial values, the supplied values winning,
\* and sets touched to the same paths, all false.
C10_BindInitialisesStores ==
  [][(Len(bindings') = Len(bindings) + 1) =>
       /\ \A p \in LeafPaths(initialValues) :
            _get(data', p) = _get(initialValues, p)
       /\ \A c \in dom :
            getPath(c) \notin LeafPaths(initialValues) =>
              _get(data', getPath(c)) = DefaultValue(c, dom)
       /\ LeafPaths(data') =
            LeafPaths(initialValues) \cup {getPath(c) : c \in dom}
       /\ LeafPaths(touched') = LeafPaths(data')
       /\ \A p \in LeafPaths(touched') : _get(touched', p) = Bool(FALSE)]_vars

\* C10, witness: the form with the controls name and subscribe has been
\* bound with the supplied name "Bob" and nothing has happened since
C10_Witness ==
  /\ Len(bindings) = 1 /\ nMutations = 0 /\ nEvents = 0 /\ subs = <<>>
  /\ data = Obj([name |-> Str("Bob"), subscribe |-> Bool(FALSE)])
  /\ touched = Obj([name |-> Bool(FALSE), subscribe |-> Bool(FALSE)])

\* C11: once the binding has been destroyed, input, change, focusout and
\* submit events on the form and changes of its children change no store
\* and create no extender instance, while a submission in flight is not
\* aborted: it goes on, calls the submit action when the validation found
\* no error, and has isSubmitting false when it settles.  The code does
\* not have the last part: see C1.
C11_DestroyDetachesButSubmissionGoesOn ==
  [][(bindings /= <<>> /\ LiveBindings = {}) =>
       /\ last'.kind \in {"input", "change", "blur"} =>
            (stores' = stores /\ extenderVars' = extenderVars)
       /\ last'.kind \in {"children", "mutation"} =>
            /\ <<data, touched, errors, warnings>>' =
                 <<data, touched, errors, warnings>>
            /\ extenderVars' = extenderVars
       /\ ~(last'.kind = "submit" /\ last'.step = "invoked" /\ last'.listener)
       /\ \A i \in DOMAIN subs :
            subs[i].live =>
              /\ (subs[i].pc = "warn" /\ ~deepSome(subs[i].currentErrors)
                  /\ subs'[i].pc /= "warn" /\ last'.failure = "none") =>
                   (subs'[i].pc = "submit" /\ subs'[i].calls = 1)
              /\ (subs[i].pc /= "settled" /\ subs'[i].pc = "settled") =>
                   ~isSubmitting']_vars

\* C12: warnings never block the submission.  Whatever the warning functions
\* return (nothing, or a tree, also one with a message at every path), the
\* submit action is invoked exactly when the validation found no truthy
\* error; and what they return is stored in warnings: every message at its
\* path, null at the other paths of the snapshot.
C12_WarningsNeverBlock ==
  [][\A i \in DOMAIN subs :
       (subs[i].pc = "warn" /\ subs'[i].pc /= "warn"
        /\ last'.failure /= "warn") =>
         /\ (subs'[i].pc = "submit") <=> ~deepSome(subs[i].currentErrors)
         /\ ~deepSome(subs[i].currentErrors) =>
              (subs'[i].calls = 1 /\ last'.calls = 1)
         /\ IF last'.warned = Undef THEN warnings' = warnings
            ELSE /\ \A p \in LeafPaths(last'.warned) :
                      _get(warnings', p) = _get(last'.warned, p)
                 /\ \A p \in LeafPaths(warnings') \ LeafPaths(last'.warned) :
                      /\ _get(warnings', p) = Null
                      /\ p \in LeafPaths(subs[i].trigData)]_vars

\* C12, witness: the submit action has been called although the warning
\* functions returned a message for every path of the data
C12_Witness ==
  /\ last.kind = "submit" /\ last.step = "warned" /\ last.calls = 1
  /\ last.warned /= Undef
  /\ \E i \in DOMAIN subs :
       /\ subs[i].pc = "submit"
       /\ LeafPaths(subs[i].trigData) /= {}
       /\ \A p \in LeafPaths(subs[i].trigData) : Truthy(_get(warnings, p))

\* C13: an input, change or focusout event whose target has the ignore
\* marker or has no name leaves data, touched, errors, warnings and isDirty
\* as they are, whatever the kind of the control and the configured touch
\* triggers.
C13_IgnoredControlsChangeNothing ==
  [][(/\ last'.kind \in {"input", "change", "blur"}
      /\ (Ctl(last'.target).ignore \/ Ctl(last'.target).name = "")) =>
       <<data, touched, errors, warnings, isDirty>>' =
         <<data, touched, errors, warnings, isDirty>>]_vars

\* C13, witness: an input event on the ignored text control of a bound form
\* whose configuration marks paths touched on input
C13_Witness ==
  /\ last.kind = "input" /\ last.target = 4
  /\ Ctl(4).ignore /\ Ctl(4).type = "text"
  /\ LiveBindings /= {}
  /\ config.touchTriggerEvents.input
  /\ ~isDirty
  /\ ~HasPath(data, getPath(4))

\* C17: for a named control without the ignore marker in a bound form, an
\* input event writes data at the path of the control and sets isDirty
\* exactly when the control is text-like; a change event does so exactly
\* when the control is a checkbox, a radio, a file input or a select (the
\* checked state of a single checkbox, the value of the checked radio, the
\* chosen file, the selected value); every other combination of event and
\* kind of control leaves data and isDirty as they are.
C17_EventsWriteByKind ==
  [][(/\ last'.kind \in {"input", "change", "blur"}
      /\ LiveBindings /= {}
      /\ ~Ctl(last'.target).ignore /\ Ctl(last'.target).name /= "") =>
       LET c == last'.target
           kind == Ctl(c).type
           written(value) ==
             /\ _get(data', getPath(c)) = value
             /\ \A p \in LeafPaths(data) \cup LeafPaths(data') :
                  p /= getPath(c) => _get(data', p) = _get(data, p)
             /\ isDirty'
           untouched == data' = data /\ isDirty' = isDirty
       IN CASE last'.kind = "input" /\ kind = "text" ->
                 written(Str(last'.value))
            [] last'.kind = "change" /\ kind = "select" ->
                 written(Str(last'.value))
            [] last'.kind = "change" /\ kind = "file" ->
                 written(<<"file", last'.value>>)
            [] last'.kind = "change" /\ kind = "radio" ->
                 written(Str(Ctl(c).value)) /\ c \in checked'
            [] last'.kind = "change" /\ kind = "checkbox" ->
                 written(Bool(c \in checked')) /\ (c \in checked' <=> c \notin checked)
            [] OTHER -> untouched]_vars

\* C17, witness: a change event on the select of a bound form has written
\* the selected value and marked the form dirty
C17_Witness ==
  /\ last.kind = "change" /\ last.target = 10
  /\ Ctl(10).type = "select"
  /\ LiveBindings /= {}
  /\ _get(data, getPath(10)) = Str(last.value)
  /\ last.value /= Ctl(10).value
  /\ isDirty

\* C14: within one invocation the steps come in the order: isSubmitting
\* set to true and the snapshot taken, the validation run, the warnings
\* run, every path of touched set to true, the submit action called; each
\* is finished before the next begins.  The validation starts in the step
\* that sets isSubmitting and takes the snapshot, the warnings start only
\* when the validation has settled, and the submit action is called only
\* when the warnings have settled, in a state where touched is all true.
C14_StepsInOrder ==
  [][\A i \in DOMAIN subs' :
       LET before == IF i \in DOMAIN subs THEN subs[i].pc ELSE "idle"
           after == subs'[i].pc
           ofThis == last'.kind = "submit" /\ last'.sub = i
       IN /\ before /= after =>
               /\ ofThis
               /\ <<before, after>> \in
                    {<<"idle", "validate">>, <<"idle", "settled">>,
                     <<"validate", "warn">>, <<"validate", "settled">>,
                     <<"warn", "submit">>, <<"warn", "settled">>,
                     <<"submit", "settled">>}
          /\ (before = "idle" /\ after = "validate") =>
               /\ isSubmitting'
               /\ subs'[i].currentData = data
               /\ last'.warnCalls = 0 /\ subs'[i].calls = 0
               /\ last'.validateCalls = (IF subs'[i].validate THEN 1 ELSE 0)
          /\ (ofThis /\ last'.validateCalls > 0) => before = "idle"
          /\ (ofThis /\ last'.warnCalls > 0) =>
               (before = "validate" /\ after = "warn")
          /\ (before = "validate" /\ after = "warn") =>
               /\ subs'[i].calls = 0
               /\ last'.warnCalls = (IF subs[i].warn THEN 1 ELSE 0)
          /\ after \in {"validate", "warn"} => subs'[i].calls = 0
          /\ (after = "submit" /\ before /= "submit") =>
               /\ before = "warn"
               /\ subs'[i].calls = 1
               /\ \A p \in LeafPaths(touched') :
                    _get(touched', p) = Bool(TRUE)]_vars

\* C14, witness: the submit action has just been called, after the
\* validation and the warnings, and every path of the bound form is touched
C14_Witness ==
  /\ last.kind = "submit" /\ last.step = "warned" /\ last.calls = 1
  /\ subs[last.sub].pc = "submit"
  /\ LiveBindings /= {}
  /\ LeafPaths(touched) /= {}
  /\ \A p \in LeafPaths(touched) : _get(touched, p) = Bool(TRUE)
  /\ isSubmitting

\* C15: in every state that can be observed once the form is bound, also
\* the states the subscribers of the stores see while the callback of the
\* observer adds or removes paths, every path of data has an entry in the
\* shadow trees; here for touched: in every state seen during the callback
\* the paths of data are paths of touched.
C15_TouchedFollowsData ==
  [][(LiveBindings' /= {} /\ last'.kind = "mutation") =>
       \A s \in last'.seen :
         \A p \in LeafPaths(s.data) : HasPath(s.touched, p)]_vars

\* C16: in every state of a bound form and for every group of checkboxes
\* of the form that have the same path, data holds at that path the array
\* of the values of the checked members when the group has more than one
\* member, and the boolean checked state of the member when it has one;
\* also after members were added to or removed from the group, once the
\* observer has handled the change.
C16_GroupValueMatchesMembers ==
  (LiveBindings /= {} /\ ~Pending) =>
    \A c \in dom :
      (Ctl(c).type = "checkbox" /\ ~shouldIgnore(c) /\ Ctl(c).name /= "") =>
        LET group == InOrder({d \in dom : /\ Ctl(d).type = "checkbox"
                                          /\ ~shouldIgnore(d)
                                          /\ getPath(d) = getPath(c)})
            on == SelectSeq(group, LAMBDA d : d \in checked)
        IN _get(data, getPath(c)) =
             IF Len(group) > 1
             THEN <<"arr", [i \in 1..Len(on) |-> Ctl(on[i]).value]>>
             ELSE Bool(c \in checked)

\* C18: when the observer handles a change of the children of the form in
\* which no added node is or holds a control and no removed node holds a
\* control, it leaves data,
\* touched, errors and warnings as they are, and neither destroys nor
\* creates an extender instance.
C18_NoControlNoEffect ==
  [][(/\ last'.kind = "mutation"
      /\ AddedControls(last'.records) = {}
      /\ RemovedControls(last'.records) = {}) =>
       /\ <<data, touched, errors, warnings>>' = <<data, touched, errors, warnings>>
       /\ extenderVars' = extenderVars]_vars

\* C18, witness: the observer of a bound form has handled two records in
\* one call, whose added and removed nodes hold no control
C18_Witness ==
  /\ last.kind = "mutation"
  /\ LiveBindings /= {}
  /\ last.records = <<[addedNodes |-> <<Element({})>>,
                        removedNodes |-> <<Element({})>>],
                      [addedNodes |-> <<Element({})>>, removedNodes |-> <<>>]>>
  /\ LeafPaths(data) /= {}

\* C19: after every run of the subscriber of errors, each control of the
\* form that has a name has its validation message attribute equal to the
\* message computed from errors at its path (the string, or the array
\* joined by newlines; no attribute when there is no message), and has
\* aria-invalid exactly when the message is not empty; and a control whose
\* computed message equals the message last applied to it has none of its
\* attributes written.  The code does not have this property: with the
\* empty string as message the attribute is absent, line 393 compares ""
\* with undefined, and lines 398-399 write the attributes at every run.
C19_ErrorsReflectedOnControls ==
  [][(last'.kind \in {"form", "submit", "mutation"} /\ last'.reflected) =>
       \A c \in dom' :
         Ctl(c).name /= "" =>
           LET message == Message(_get(errors', getPath(c)))
           IN /\ felteValidationMessage'[c] = message
              /\ (c \in ariaInvalid') <=> (message /= Undef /\ message[2] /= "")
              /\ (message = applied[c]) => c \notin last'.written]_vars

\* C20: the onSubmitError hook is never called on an extender instance
\* whose destroy hook has been called: every instance a submission
\* notifies, after a validation error or a recovered failure of the submit
\* action, is live, also when the extenders were remounted or the binding
\* was destroyed while the submission was waiting.
C20_OnlyLiveInstancesNotified ==
  [][last'.kind = "submit" =>
       \A k \in DOMAIN last'.hookCalls :
         destroyCount[last'.hookCalls[k].instance] = 0]_vars

====
